---- MODULE Spec2Model ----
(***************************************************************************)
(* The CD-ROM controller of vaporstation: the command handlers of          *)
(* src/cdrom/commands.rs acting on the drive record (CDDrive), and the     *)
(* stepper that paces the delivery of the response packets they return.    *)
(* Then the register file of coprocessor 0 (src/cpu/cop0.rs) and the GP0   *)
(* command port of the GPU (src/gpu.rs), each under its own specification. *)
(***************************************************************************)
EXTENDS Integers, Sequences, FiniteSets, TLC

(***************************************************************************)
(* Bounds of the model and input sets.                                     *)
(***************************************************************************)
\* longest data_queue the sector streaming is let to build up
MaxQueue == 1
\* largest read_offset the sector streaming is let to reach
MaxOffset == 1

\* track counts of the discs that may be mounted (4: the spec's example;
\* 98: track_count + 1 has two decimal digits)
TrackCounts == {4, 98}
\* (minute, second, frame) parameters given to set_loc
SeekTargets == {<<0, 2, 0>>, <<1, 30, 5>>}
\* mode bytes given to set_mode
ModeBytes == {0, 128}
\* track parameters given to get_td
TrackParams == {1, 2}
\* the byte the sector streaming buffers
SectorBytes == {255}

(***************************************************************************)
(* Option<T>: None is the empty sequence, Some(x) the one-element one.     *)
(***************************************************************************)
None == <<>>
Some(x) == <<x>>
is_some(o) == o # None
unwrap(o) == o[1]

(***************************************************************************)
(* Enumerations of cdrom/mod.rs.                                           *)
(***************************************************************************)
INT1 == "INT1"
INT2 == "INT2"
INT3 == "INT3"
INT4 == "INT4"
INT5 == "INT5"
IntCause == {INT1, INT2, INT3, INT4, INT5}

MotorOff == "Off"
MotorOn == "On"
MotorState == {MotorOff, MotorOn}

Idle == "Idle"
Seek == "Seek"
Read == "Read"
DriveState == {Idle, Seek, Read}

(***************************************************************************)
(* commands.rs:4-5                                                         *)
(***************************************************************************)
\* 0xc4e1
AVG_FIRST_RESPONSE_TIME == 50401
\* 0x1000
AVG_SECOND_RESPONSE_TIME == 4096

(***************************************************************************)
(* State.  The fields of CDDrive, the packet the last handler returned,    *)
(* and the stepper's position in that packet's chain.                      *)
(***************************************************************************)
VARIABLES
    disc,           \* Option<Disc>, a disc being [track_count |-> n]
    motor_state,
    drive_state,
    drive_mode,
    seek_target,
    seek_complete,
    read_offset,
    read_enabled,
    data_queue,
    packet,         \* Option<Packet>: what the last handler call returned
    pending,        \* Option<Packet>: the packet the stepper is waiting on
    remaining,      \* cycles left before `pending` is delivered
    clock,          \* cycles stepped since the last command was issued
    delivered,      \* the delivery events since the last command was issued
    aborted,        \* the process has panicked
    gen_registers,  \* Cop0: [u32; 32]
    vram,           \* Gpu: the nonzero halfwords of vram, address |-> value
    gp0_buffer,     \* Gpu: [u32; 16]
    gp0_buffer_address,
    texpage_x_base,
    texpage_y_base,
    draw_area_top_left_x,
    draw_area_top_left_y,
    draw_area_bottom_right_x,
    draw_area_bottom_right_y

driveVars == <<disc, motor_state, drive_state, drive_mode, seek_target,
               seek_complete, read_offset, read_enabled, data_queue>>
schedVars == <<packet, pending, remaining, clock, delivered>>
cop0Vars == <<gen_registers>>
gpuVars == <<vram, gp0_buffer, gp0_buffer_address, texpage_x_base,
             texpage_y_base, draw_area_top_left_x, draw_area_top_left_y,
             draw_area_bottom_right_x, draw_area_bottom_right_y>>
vars == <<driveVars, schedVars, aborted, cop0Vars, gpuVars>>

\* the drive record handed to a handler as `state`
CDDrive ==
    [disc |-> disc, motor_state |-> motor_state, drive_state |-> drive_state,
     drive_mode |-> drive_mode, seek_target |-> seek_target,
     seek_complete |-> seek_complete, read_offset |-> read_offset,
     read_enabled |-> read_enabled, data_queue |-> data_queue]

DiscIndex_new(minutes, seconds, frames) == <<minutes, seconds, frames>>

\* disc.rs dec_to_bcd: tens digit in the high nibble, ones digit in the low
dec_to_bcd(dec) == ((dec \div 10) * 16) + (dec % 10)

\* `x as u8`
as_u8(x) == x % 256

\* CDDrive::get_stat: bit 1 motor on, bit 5 reading, bit 6 seeking
CDDrive_get_stat(state) ==
    (IF state.motor_state = MotorOn THEN 2 ELSE 0)
    + (CASE state.drive_state = Read -> 32
         [] state.drive_state = Seek -> 64
         [] OTHER -> 0)

Packet(cause, response, execution_cycles, extra_response, command) ==
    [cause |-> cause, response |-> response,
     execution_cycles |-> execution_cycles,
     extra_response |-> extra_response, command |-> command]

\* what a handler hands back: the drive record as it leaves it, and the packet
Ret(state, pkt) == [state |-> state, packet |-> pkt]

(***************************************************************************)
(* The handlers of commands.rs.                                            *)
(***************************************************************************)
\* get_bios_date with the second-response delay
get_bios_date_second_delay ==
    Packet(INT3, <<148, 9, 25, 192>>, AVG_SECOND_RESPONSE_TIME, None, 25)

get_bios_date ==
    Packet(INT3, <<148, 9, 25, 192>>, AVG_FIRST_RESPONSE_TIME, None, 25)

stat(state, command) ==
    Packet(INT3, <<CDDrive_get_stat(state)>>, AVG_FIRST_RESPONSE_TIME, None,
           command)

get_stat(state) == stat(state, 1)

\* get_id taking the licensed-disc branch whether or not a disc is mounted
get_id_always_licensed(state) ==
    LET first_response == stat(state, 26)
        second_response ==
            Packet(INT2, <<CDDrive_get_stat(state), 0, 32, 0, 83, 67, 69, 65>>,
                   AVG_SECOND_RESPONSE_TIME, None, 26)
    IN  [first_response EXCEPT !.extra_response = Some(second_response)]

\* get_id giving its second packet the first-response delay
get_id_second_default_delay(state) ==
    LET first_response == stat(state, 26)
        second_response ==
            IF is_some(state.disc)
            THEN Packet(INT2,
                        <<CDDrive_get_stat(state), 0, 32, 0, 83, 67, 69, 65>>,
                        AVG_FIRST_RESPONSE_TIME, None, 26)
            ELSE Packet(INT5, <<8, 64, 0, 0, 0, 0, 0, 0>>,
                        AVG_FIRST_RESPONSE_TIME, None, 26)
    IN  [first_response EXCEPT !.extra_response = Some(second_response)]

get_id(state) ==
    IF is_some(state.disc)
    THEN LET first_response == stat(state, 26)
             second_response ==
                 Packet(INT2,
                        <<CDDrive_get_stat(state), 0, 32, 0, 83, 67, 69, 65>>,
                        AVG_SECOND_RESPONSE_TIME, None, 26)
         IN  [first_response EXCEPT !.extra_response = Some(second_response)]
    ELSE LET first_response == stat(state, 26)
             second_response ==
                 Packet(INT5, <<8, 64, 0, 0, 0, 0, 0, 0>>,
                        AVG_SECOND_RESPONSE_TIME, None, 26)
         IN  [first_response EXCEPT !.extra_response = Some(second_response)]

\* init without `first_response.extra_response = Some(..)`: the Complete
\* packet is built and dropped
init_unlinked(state) ==
    LET s1 == [state EXCEPT !.motor_state = MotorOn]
        first_response == stat(s1, 10)
    IN  Ret(s1, first_response)

\* init taking the first status snapshot before the motor is switched on
init_stale_ack(state) ==
    LET first_response == stat(state, 10)
        s1 == [state EXCEPT !.motor_state = MotorOn]
        second_response == [stat(s1, 10) EXCEPT !.cause = INT2]
    IN  Ret(s1, [first_response EXCEPT
                    !.extra_response = Some(second_response)])

init(state) ==
    LET s1 == [state EXCEPT !.motor_state = MotorOn]
        first_response == stat(s1, 10)
        second_response == [stat(s1, 10) EXCEPT !.cause = INT2]
    IN  Ret(s1, [first_response EXCEPT
                    !.extra_response = Some(second_response)])

\* set_loc without data_queue.clear()
set_loc_keep_queue(state, minutes, seconds, frames) ==
    LET s1 == [state EXCEPT
                  !.seek_target = DiscIndex_new(minutes, seconds, frames),
                  !.seek_complete = FALSE,
                  !.read_offset = 0]
    IN  Ret(s1, stat(s1, 2))

set_loc(state, minutes, seconds, frames) ==
    LET s1 == [state EXCEPT
                  !.seek_target = DiscIndex_new(minutes, seconds, frames),
                  !.seek_complete = FALSE,
                  !.read_offset = 0,
                  !.data_queue = <<>>]
    IN  Ret(s1, stat(s1, 2))

\* seek_data without `state.drive_state = DriveState::Seek`
seek_data_stays_idle(state) ==
    LET s1 == [state EXCEPT !.drive_state = Idle]
        second0 == [stat(s1, 21) EXCEPT
                       !.execution_cycles = AVG_FIRST_RESPONSE_TIME]
        first_response == stat(s1, 21)
        second_response == [second0 EXCEPT !.cause = INT2,
                                           !.execution_cycles = 120000]
    IN  Ret(s1, [first_response EXCEPT
                    !.extra_response = Some(second_response)])

\* seek_data taking both status snapshots after the transition to Seek
seek_data_one_snapshot(state) ==
    LET s2 == [state EXCEPT !.drive_state = Seek]
        first_response == stat(s2, 21)
        second_response == [stat(s2, 21) EXCEPT !.cause = INT2,
                                                !.execution_cycles = 120000]
    IN  Ret(s2, [first_response EXCEPT
                    !.extra_response = Some(second_response)])

\* seek_data without `second_response.execution_cycles = 120000`: the held
\* packet keeps the first-response delay
seek_data_default_completion(state) ==
    LET s1 == [state EXCEPT !.drive_state = Idle]
        second0 == [stat(s1, 21) EXCEPT
                       !.execution_cycles = AVG_FIRST_RESPONSE_TIME]
        s2 == [s1 EXCEPT !.drive_state = Seek]
        first_response == stat(s2, 21)
        second_response == [second0 EXCEPT !.cause = INT2]
    IN  Ret(s2, [first_response EXCEPT
                    !.extra_response = Some(second_response)])

seek_data(state) ==
    LET s1 == [state EXCEPT !.drive_state = Idle]
        second0 == [stat(s1, 21) EXCEPT
                       !.execution_cycles = AVG_FIRST_RESPONSE_TIME]
        s2 == [s1 EXCEPT !.drive_state = Seek]
        first_response == stat(s2, 21)
        second_response == [second0 EXCEPT !.cause = INT2,
                                           !.execution_cycles = 120000]
    IN  Ret(s2, [first_response EXCEPT
                    !.extra_response = Some(second_response)])

set_mode(state, mode) ==
    LET s1 == [state EXCEPT !.drive_mode = mode]
    IN  Ret(s1, stat(s1, 14))

\* read_with_retry without `state.read_enabled = true`
read_with_retry_no_enable(state) ==
    LET initial0 == stat(state, 6)
        s1 == [state EXCEPT !.drive_state = Read]
        response_packet ==
            Packet(INT1, <<CDDrive_get_stat(s1)>>, 224466, None, 6)
        initial_response ==
            [initial0 EXCEPT !.execution_cycles = AVG_FIRST_RESPONSE_TIME,
                             !.extra_response = Some(response_packet)]
    IN  Ret(s1, initial_response)

read_with_retry(state) ==
    LET initial0 == stat(state, 6)
        s1 == [state EXCEPT !.drive_state = Read, !.read_enabled = TRUE]
        response_packet ==
            Packet(INT1, <<CDDrive_get_stat(s1)>>, 224466, None, 6)
        initial_response ==
            [initial0 EXCEPT !.execution_cycles = AVG_FIRST_RESPONSE_TIME,
                             !.extra_response = Some(response_packet)]
    IN  Ret(s1, initial_response)

\* stop_read without `state.drive_state = DriveState::Idle`
stop_read_keep_state(state) ==
    LET initial0 == stat(state, 9)
        s1 == [state EXCEPT !.read_enabled = FALSE]
        response_packet ==
            Packet(INT2, <<CDDrive_get_stat(s1)>>, 1000000, None, 9)
        initial_response ==
            [initial0 EXCEPT !.execution_cycles = AVG_FIRST_RESPONSE_TIME,
                             !.extra_response = Some(response_packet)]
    IN  Ret(s1, initial_response)

\* stop_read also switching the motor off
stop_read_motor_off(state) ==
    LET initial0 == stat(state, 9)
        s1 == [state EXCEPT !.drive_state = Idle, !.read_enabled = FALSE,
                            !.motor_state = MotorOff]
        response_packet ==
            Packet(INT2, <<CDDrive_get_stat(s1)>>, 1000000, None, 9)
        initial_response ==
            [initial0 EXCEPT !.execution_cycles = AVG_FIRST_RESPONSE_TIME,
                             !.extra_response = Some(response_packet)]
    IN  Ret(s1, initial_response)

\* stop_read building its packets but leaving the drive record as it was,
\* as if the stop were applied when the Complete packet is delivered
stop_read_deferred(state) ==
    LET initial0 == stat(state, 9)
        s1 == [state EXCEPT !.drive_state = Idle, !.read_enabled = FALSE]
        response_packet ==
            Packet(INT2, <<CDDrive_get_stat(s1)>>, 1000000, None, 9)
        initial_response ==
            [initial0 EXCEPT !.execution_cycles = AVG_FIRST_RESPONSE_TIME,
                             !.extra_response = Some(response_packet)]
    IN  Ret(state, initial_response)

\* stop_read taking the first status snapshot after the transition to Idle
stop_read_late_ack(state) ==
    LET s1 == [state EXCEPT !.drive_state = Idle, !.read_enabled = FALSE]
        initial0 == stat(s1, 9)
        response_packet ==
            Packet(INT2, <<CDDrive_get_stat(s1)>>, 1000000, None, 9)
        initial_response ==
            [initial0 EXCEPT !.execution_cycles = AVG_FIRST_RESPONSE_TIME,
                             !.extra_response = Some(response_packet)]
    IN  Ret(s1, initial_response)

stop_read(state) ==
    LET initial0 == stat(state, 9)
        s1 == [state EXCEPT !.drive_state = Idle, !.read_enabled = FALSE]
        response_packet ==
            Packet(INT2, <<CDDrive_get_stat(s1)>>, 1000000, None, 9)
        initial_response ==
            [initial0 EXCEPT !.execution_cycles = AVG_FIRST_RESPONSE_TIME,
                             !.extra_response = Some(response_packet)]
    IN  Ret(s1, initial_response)

demute(state) == stat(state, 12)

\* get_tn pushing track_count + 1 as a plain number, not through dec_to_bcd
get_tn_no_bcd(state) ==
    LET first_track == 1
        last_track == unwrap(state.disc).track_count + 1
        initial_response == stat(state, 19)
    IN  [initial_response EXCEPT
            !.response = Append(Append(@, first_track), as_u8(last_track))]

\* the body of get_tn once `expect` has found the disc
get_tn(state) ==
    LET first_track == 1
        last_track == dec_to_bcd(unwrap(state.disc).track_count + 1)
        initial_response == stat(state, 19)
    IN  [initial_response EXCEPT
            !.response = Append(Append(@, first_track), as_u8(last_track))]

\* get_td answering with the track number in the minutes byte
get_td_uses_track(state, track) ==
    LET initial_response == stat(state, 20)
    IN  [initial_response EXCEPT !.response = Append(Append(@, track), 2)]

get_td(state, track) ==
    LET initial_response == stat(state, 20)
    IN  [initial_response EXCEPT !.response = Append(Append(@, 0), 2)]

play(state) == stat(state, 3)

(***************************************************************************)
(* Construction: no command issued yet, motor off, drive idle; a disc may  *)
(* or may not be mounted.                                                  *)
(***************************************************************************)
Discs == {[track_count |-> n] : n \in TrackCounts}

\* Cop0::new
Cop0_new == gen_registers = [r \in 0..31 |-> 0]

\* Gpu::new; vram, all zero, is kept as the map of its nonzero halfwords,
\* and a word of gp0_buffer as the pair of its 16-bit halves
Gpu_new ==
    /\ vram = [a \in {} |-> 0]
    /\ gp0_buffer = [i \in 0..15 |-> <<0, 0>>]
    /\ gp0_buffer_address = 0
    /\ texpage_x_base = 0
    /\ texpage_y_base = 0
    /\ draw_area_top_left_x = 0
    /\ draw_area_top_left_y = 0
    /\ draw_area_bottom_right_x = 0
    /\ draw_area_bottom_right_y = 0

Init ==
    /\ disc \in {None} \cup {Some(d) : d \in Discs}
    /\ motor_state = MotorOff
    /\ drive_state = Idle
    /\ drive_mode = 0
    /\ seek_target = DiscIndex_new(0, 0, 0)
    /\ seek_complete = FALSE
    /\ read_offset = 0
    /\ read_enabled = FALSE
    /\ data_queue = <<>>
    /\ packet = None
    /\ pending = None
    /\ remaining = 0
    /\ clock = 0
    /\ delivered = <<>>
    /\ aborted = FALSE
    /\ Cop0_new
    /\ Gpu_new

(***************************************************************************)
(* Command issue: the dispatcher calls the handler, the drive record is    *)
(* what the handler left, and the returned packet replaces whatever chain  *)
(* was still undelivered.                                                  *)
(***************************************************************************)
Issue(state, pkt) ==
    /\ ~aborted
    /\ disc' = state.disc
    /\ motor_state' = state.motor_state
    /\ drive_state' = state.drive_state
    /\ drive_mode' = state.drive_mode
    /\ seek_target' = state.seek_target
    /\ seek_complete' = state.seek_complete
    /\ read_offset' = state.read_offset
    /\ read_enabled' = state.read_enabled
    /\ data_queue' = state.data_queue
    /\ packet' = Some(pkt)
    /\ pending' = Some(pkt)
    /\ remaining' = pkt.execution_cycles
    /\ clock' = 0
    /\ delivered' = <<>>
    /\ UNCHANGED <<aborted, cop0Vars, gpuVars>>

CmdGetBiosDate == Issue(CDDrive, get_bios_date)

CmdGetStat == Issue(CDDrive, get_stat(CDDrive))

CmdGetId == Issue(CDDrive, get_id(CDDrive))

CmdInit == Issue(init(CDDrive).state, init(CDDrive).packet)

CmdSetLoc(minutes, seconds, frames) ==
    Issue(set_loc(CDDrive, minutes, seconds, frames).state,
          set_loc(CDDrive, minutes, seconds, frames).packet)

CmdSeekData == Issue(seek_data(CDDrive).state, seek_data(CDDrive).packet)

CmdSetMode(mode) ==
    Issue(set_mode(CDDrive, mode).state, set_mode(CDDrive, mode).packet)

CmdReadWithRetry ==
    Issue(read_with_retry(CDDrive).state, read_with_retry(CDDrive).packet)

CmdStopRead == Issue(stop_read(CDDrive).state, stop_read(CDDrive).packet)

CmdDemute == Issue(CDDrive, demute(CDDrive))

\* get_tn with a disc mounted
CmdGetTn ==
    /\ is_some(disc)
    /\ Issue(CDDrive, get_tn(CDDrive))

\* get_tn with no disc: expect("Tried to read non-existant disc!") panics
CmdGetTnPanic ==
    /\ ~aborted
    /\ ~is_some(disc)
    /\ aborted' = TRUE
    /\ UNCHANGED <<driveVars, schedVars, cop0Vars, gpuVars>>

CmdGetTd(track) == Issue(CDDrive, get_td(CDDrive, track))

\* play switching the drive to Read
CmdPlay_starts_read ==
    Issue([CDDrive EXCEPT !.drive_state = Read], play(CDDrive))

CmdPlay == Issue(CDDrive, play(CDDrive))

(***************************************************************************)
(* The delivery stepper: n clock ticks in a row.  Each tick takes one      *)
(* cycle off the pending packet's delay; the tick that takes the last one  *)
(* delivers the packet's cause and bytes and moves on to its successor.    *)
(***************************************************************************)
StepCycles(n) ==
    /\ ~aborted
    /\ is_some(pending)
    /\ n \in 1..remaining
    /\ clock' = clock + n
    /\ IF n = remaining
       THEN /\ delivered' = Append(delivered,
                                   [cause |-> unwrap(pending).cause,
                                    response |-> unwrap(pending).response,
                                    at |-> clock + n])
            /\ pending' = unwrap(pending).extra_response
            /\ remaining' = IF is_some(unwrap(pending).extra_response)
                            THEN unwrap(unwrap(pending).extra_response).execution_cycles
                            ELSE 0
       ELSE /\ remaining' = remaining - n
            /\ UNCHANGED <<pending, delivered>>
    /\ UNCHANGED <<driveVars, packet, aborted, cop0Vars, gpuVars>>

\* the runs of ticks explored: up to the tick before the delivery, or through it
StepSizes == {remaining - 1, remaining} \cap (1..remaining)

(***************************************************************************)
(* The seek/read processing outside the handlers, which is what gives      *)
(* seek_complete, read_offset and data_queue their non-reset values.       *)
(***************************************************************************)
SeekProcessed ==
    /\ ~aborted
    /\ drive_state \in {Seek, Read}
    /\ ~seek_complete
    /\ seek_complete' = TRUE
    /\ UNCHANGED <<disc, motor_state, drive_state, drive_mode, seek_target,
                   read_offset, read_enabled, data_queue, schedVars, aborted,
                   cop0Vars, gpuVars>>

SectorBuffered(b) ==
    /\ ~aborted
    /\ read_enabled
    /\ Len(data_queue) < MaxQueue
    /\ data_queue' = Append(data_queue, b)
    /\ UNCHANGED <<disc, motor_state, drive_state, drive_mode, seek_target,
                   seek_complete, read_offset, read_enabled, schedVars, aborted,
                   cop0Vars, gpuVars>>

ByteTransferred ==
    /\ ~aborted
    /\ read_enabled
    /\ read_offset < MaxOffset
    /\ read_offset' = read_offset + 1
    /\ UNCHANGED <<disc, motor_state, drive_state, drive_mode, seek_target,
                   seek_complete, read_enabled, data_queue, schedVars, aborted,
                   cop0Vars, gpuVars>>

Next ==
    \/ CmdGetBiosDate
    \/ CmdGetStat
    \/ CmdGetId
    \/ CmdInit
    \/ \E t \in SeekTargets : CmdSetLoc(t[1], t[2], t[3])
    \/ CmdSeekData
    \/ \E mode \in ModeBytes : CmdSetMode(mode)
    \/ CmdReadWithRetry
    \/ CmdStopRead
    \/ CmdDemute
    \/ CmdGetTn
    \/ CmdGetTnPanic
    \/ \E track \in TrackParams : CmdGetTd(track)
    \/ CmdPlay
    \/ \E n \in StepSizes : StepCycles(n)
    \/ SeekProcessed
    \/ \E b \in SectorBytes : SectorBuffered(b)
    \/ ByteTransferred

Spec == Init /\ [][Next]_vars

(***************************************************************************)
(* Reading a response chain and a status byte, for the properties below.   *)
(***************************************************************************)
RECURSIVE Chain(_)
\* the packets of a chain in delivery order, following extra_response
Chain(o) == IF o = None THEN <<>>
            ELSE <<unwrap(o)>> \o Chain(unwrap(o).extra_response)

Acknowledge == "INT3"
DataReady == "INT1"
Complete == "INT2"
Error == "INT5"

\* motor bit (bit 1) of a status byte
StatMotor(b) == IF (b \div 2) % 2 = 1 THEN "On" ELSE "Off"
\* activity bits (bit 5 reading, bit 6 seeking) of a status byte
StatActivity(b) ==
    IF (b \div 32) % 2 = 1 THEN "Read"
    ELSE IF (b \div 64) % 2 = 1 THEN "Seek" ELSE "Idle"
\* b is the status byte of a drive with this motor state and activity
Reflects(b, motor, activity) ==
    /\ b \in 0..255
    /\ StatMotor(b) = motor
    /\ StatActivity(b) = activity
    /\ b % 2 = 0 /\ (b \div 4) % 8 = 0 /\ b \div 128 = 0

\* the opcode of the last command issued (0 before the first)
LastCommand == IF packet = None THEN 0 ELSE unwrap(packet).command

(***************************************************************************)
(* C1: seek-data, from any prior drive state, returns exactly two packets: *)
(* the head is Acknowledge, delay 0xc4e1, with the status of a seeking     *)
(* drive; the successor is Complete, delay 120000, with the status of an   *)
(* idle drive; and the drive is left in Seek.                              *)
(***************************************************************************)
C1_SeekDataChain ==
    [][CmdSeekData =>
        LET c == Chain(packet') IN
        /\ Len(c) = 2
        /\ c[1].cause = Acknowledge
        /\ c[1].execution_cycles = 50401
        /\ Len(c[1].response) = 1
        /\ Reflects(c[1].response[1], motor_state, "Seek")
        /\ c[2].cause = Complete
        /\ c[2].execution_cycles = 120000
        /\ Len(c[2].response) = 1
        /\ Reflects(c[2].response[1], motor_state, "Idle")
        /\ drive_state' = "Seek"]_vars

\* seek-data was issued while a read was active, both its packets have been
\* delivered, and the drive is in Seek
C1_Witness ==
    /\ LastCommand = 21
    /\ read_enabled
    /\ drive_state = "Seek"
    /\ Len(delivered) = 2
    /\ delivered[2].cause = Complete
    /\ StatActivity(delivered[2].response[1]) = "Idle"

(***************************************************************************)
(* C2: every change a command makes to the drive record is made when the   *)
(* command is issued; stepping the delivery of its packets, the delayed    *)
(* one included, changes no field of the drive record.  So the drive stays *)
(* in Seek after seek-data's Complete packet is delivered, and is Idle     *)
(* with reading off from the moment stop-read is issued.                   *)
(***************************************************************************)
C2_AppliedAtIssue ==
    /\ (LastCommand = 21 => drive_state = "Seek")
    /\ (LastCommand = 9 => drive_state = "Idle" /\ ~read_enabled)
    /\ (LastCommand = 6 => drive_state = "Read" /\ read_enabled)
    /\ (LastCommand = 10 => motor_state = "On")

OtherThanSetLoc ==
    \/ CmdGetBiosDate
    \/ CmdGetStat
    \/ CmdGetId
    \/ CmdInit
    \/ CmdSeekData
    \/ \E mode \in ModeBytes : CmdSetMode(mode)
    \/ CmdReadWithRetry
    \/ CmdStopRead
    \/ CmdDemute
    \/ CmdGetTn
    \/ CmdGetTnPanic
    \/ \E track \in TrackParams : CmdGetTd(track)
    \/ CmdPlay

C3_SetLocResets ==
    /\ [][\A t \in SeekTargets :
            CmdSetLoc(t[1], t[2], t[3]) =>
                LET c == Chain(packet') IN
                /\ seek_target' = t
                /\ seek_complete' = FALSE
                /\ read_offset' = 0
                /\ data_queue' = <<>>
                /\ Len(c) = 1
                /\ c[1].cause = Acknowledge
                /\ Len(c[1].response) = 1
                /\ Reflects(c[1].response[1], motor_state, drive_state)]_vars
    /\ [][OtherThanSetLoc =>
            UNCHANGED <<seek_target, seek_complete, read_offset,
                        data_queue>>]_vars
    /\ [][seek_target' # seek_target =>
            seek_complete' = FALSE /\ read_offset' = 0
            /\ data_queue' = <<>>]_vars

\* set-loc has just been issued during a read: the target is the one given
\* and the three fields are reset
C3_Witness ==
    /\ LastCommand = 2
    /\ clock = 0
    /\ read_enabled
    /\ seek_target = <<1, 30, 5>>
    /\ seek_complete = FALSE
    /\ read_offset = 0
    /\ data_queue = <<>>

(***************************************************************************)
(* C4: init, from any prior state, switches the motor on before any status *)
(* is computed and returns exactly two packets with the same one-byte      *)
(* payload, which shows the motor on; the first is Acknowledge, the second *)
(* Complete, both with the first-response delay 0xc4e1.                    *)
(***************************************************************************)
C4_InitChain ==
    [][CmdInit =>
        LET c == Chain(packet') IN
        /\ motor_state' = "On"
        /\ Len(c) = 2
        /\ Len(c[1].response) = 1
        /\ c[2].response = c[1].response
        /\ Reflects(c[1].response[1], "On", drive_state)
        /\ c[1].cause = Acknowledge
        /\ c[2].cause = Complete
        /\ c[1].execution_cycles = 50401
        /\ c[2].execution_cycles = 50401]_vars

\* init has just been issued on a reading drive
C4_Witness ==
    /\ LastCommand = 10
    /\ clock = 0
    /\ motor_state = "On"
    /\ drive_state = "Read"
    /\ Chain(packet)[1].response = <<34>>
    /\ Chain(packet)[2].response = <<34>>

(***************************************************************************)
(* C5: get-id returns exactly two packets; the head is Acknowledge with    *)
(* one status byte; with no disc mounted the second is Error with payload  *)
(* [0x08,0x40,0,0,0,0,0,0], with a disc mounted it is Complete with        *)
(* payload [status,0x00,0x20,0x00,0x53,0x43,0x45,0x41].                    *)
(***************************************************************************)
C5_GetIdChain ==
    [][CmdGetId =>
        LET c == Chain(packet') IN
        /\ Len(c) = 2
        /\ c[1].cause = Acknowledge
        /\ Len(c[1].response) = 1
        /\ Reflects(c[1].response[1], motor_state, drive_state)
        /\ (disc = None =>
               /\ c[2].cause = Error
               /\ c[2].response = <<8, 64, 0, 0, 0, 0, 0, 0>>)
        /\ (disc # None =>
               /\ c[2].cause = Complete
               /\ c[2].response =
                      <<c[1].response[1], 0, 32, 0, 83, 67, 69, 65>>)]_vars

\* get-id has been issued with no disc mounted and the motor on, and its
\* Error packet has been delivered
C5_Witness ==
    /\ LastCommand = 26
    /\ disc = None
    /\ motor_state = "On"
    /\ Len(delivered) = 2
    /\ delivered[2].cause = Error
    /\ delivered[2].response = <<8, 64, 0, 0, 0, 0, 0, 0>>

(***************************************************************************)
(* C6 as stated: get-id's first packet is immediate, its delay being zero, *)
(* and its second packet is delayed by the second-response delay 0x1000.   *)
(***************************************************************************)
C6_FirstPacketImmediate ==
    LastCommand = 26 =>
        /\ Chain(packet)[1].execution_cycles = 0
        /\ Chain(packet)[2].execution_cycles = 4096

(***************************************************************************)
(* C6 as amended: get-id's first packet (Acknowledge and one status byte)  *)
(* has the first-response delay 0xc4e1, so it is delivered 0xc4e1 cycles   *)
(* after the command is issued, and its second packet has the              *)
(* second-response delay 0x1000, counted from the delivery of the first.   *)
(***************************************************************************)
C6_GetIdDelays ==
    LastCommand = 26 =>
        /\ Chain(packet)[1].cause = Acknowledge
        /\ Len(Chain(packet)[1].response) = 1
        /\ Chain(packet)[1].execution_cycles = 50401
        /\ Chain(packet)[2].execution_cycles = 4096
        /\ (Len(delivered) = 0 => clock < 50401)
        /\ (Len(delivered) >= 1 => delivered[1].at = 50401)
        /\ (Len(delivered) = 1 => clock < 50401 + 4096)
        /\ (Len(delivered) = 2 => delivered[2].at - delivered[1].at = 4096)

\* both packets of a get-id have been delivered
C6_Witness ==
    /\ LastCommand = 26
    /\ Len(delivered) = 2
    /\ delivered[1].cause = Acknowledge
    /\ delivered[2].at = 54497

(***************************************************************************)
(* C7: get-track-count with a disc mounted returns a single Acknowledge    *)
(* packet of exactly three bytes: the status byte, the first track 0x01,   *)
(* and the last track, which is track_count + 1 in binary-coded decimal    *)
(* (0x05 for a track count of 4); the drive record is unchanged.           *)
(***************************************************************************)
C7_GetTrackCount ==
    [][CmdGetTn =>
        LET c == Chain(packet')
            n == unwrap(disc).track_count + 1
        IN
        /\ Len(c) = 1
        /\ c[1].cause = Acknowledge
        /\ Len(c[1].response) = 3
        /\ Reflects(c[1].response[1], motor_state, drive_state)
        /\ c[1].response[2] = 1
        /\ c[1].response[3] \div 16 = n \div 10
        /\ c[1].response[3] % 16 = n % 10
        /\ (unwrap(disc).track_count = 4 => c[1].response[3] = 5)
        /\ UNCHANGED driveVars]_vars

\* get-track-count has been answered for a disc of 98 tracks: last track 0x99
C7_Witness ==
    /\ LastCommand = 19
    /\ disc # None
    /\ unwrap(disc).track_count = 98
    /\ Len(delivered) = 1
    /\ delivered[1].response[2] = 1
    /\ delivered[1].response[3] = 153

(***************************************************************************)
(* C8: get-track-count with no disc mounted fails with a condition the     *)
(* caller sees; the controller is not hard-aborted and still accepts       *)
(* commands.                                                               *)
(***************************************************************************)
C8_NoDiscNotAborted ==
    disc = None => (~aborted /\ ENABLED CmdGetStat)

(***************************************************************************)
(* C9: stop-read, from any prior state, sets drive_state to Idle and       *)
(* read_enabled to false when issued and returns exactly two packets: the  *)
(* head is Acknowledge, delay 0xc4e1, with the status of the drive before  *)
(* the call; the successor is Complete, delay 1,000,000, with the status   *)
(* of an idle drive.                                                       *)
(***************************************************************************)
C9_StopReadChain ==
    [][CmdStopRead =>
        LET c == Chain(packet') IN
        /\ drive_state' = "Idle"
        /\ read_enabled' = FALSE
        /\ Len(c) = 2
        /\ c[1].cause = Acknowledge
        /\ c[1].execution_cycles = 50401
        /\ Len(c[1].response) = 1
        /\ Reflects(c[1].response[1], motor_state, drive_state)
        /\ c[2].cause = Complete
        /\ c[2].execution_cycles = 1000000
        /\ Len(c[2].response) = 1
        /\ Reflects(c[2].response[1], motor_state, "Idle")]_vars

\* stop-read has just been issued during a read: the head shows Read, the
\* successor Idle
C9_Witness ==
    /\ LastCommand = 9
    /\ clock = 0
    /\ drive_state = "Idle"
    /\ read_enabled = FALSE
    /\ StatActivity(Chain(packet)[1].response[1]) = "Read"
    /\ StatActivity(Chain(packet)[2].response[1]) = "Idle"

(***************************************************************************)
(* C10: read-with-retry, from any prior state, sets drive_state to Read    *)
(* and read_enabled to true and returns exactly two packets: the head is   *)
(* Acknowledge, delay 0xc4e1, with one status byte taken before the        *)
(* transition; the successor is DataReady, delay 0x36cd2, with exactly one *)
(* status byte, that of a reading drive.                                   *)
(***************************************************************************)
C10_ReadWithRetryChain ==
    [][CmdReadWithRetry =>
        LET c == Chain(packet') IN
        /\ drive_state' = "Read"
        /\ read_enabled' = TRUE
        /\ Len(c) = 2
        /\ c[1].cause = Acknowledge
        /\ c[1].execution_cycles = 50401
        /\ Len(c[1].response) = 1
        /\ Reflects(c[1].response[1], motor_state, drive_state)
        /\ c[2].cause = DataReady
        /\ c[2].execution_cycles = 224466
        /\ Len(c[2].response) = 1
        /\ Reflects(c[2].response[1], motor_state, "Read")]_vars

\* read-with-retry has just been issued on a seeking drive: the head shows
\* Seek, the successor Read
C10_Witness ==
    /\ LastCommand = 6
    /\ clock = 0
    /\ drive_state = "Read"
    /\ read_enabled
    /\ StatActivity(Chain(packet)[1].response[1]) = "Seek"
    /\ StatActivity(Chain(packet)[2].response[1]) = "Read"

(***************************************************************************)
(* The controller when no command is issued while a chain is undelivered:  *)
(* a handler is called only once the stepper has nothing pending, and the  *)
(* stepper, run on every emulated clock tick, keeps stepping.              *)
(***************************************************************************)
Step == \E n \in StepSizes : StepCycles(n)

SchedNext ==
    \/ pending = None /\ CmdGetBiosDate
    \/ pending = None /\ CmdGetStat
    \/ pending = None /\ CmdGetId
    \/ pending = None /\ CmdInit
    \/ pending = None /\ \E t \in SeekTargets : CmdSetLoc(t[1], t[2], t[3])
    \/ pending = None /\ CmdSeekData
    \/ pending = None /\ \E mode \in ModeBytes : CmdSetMode(mode)
    \/ pending = None /\ CmdReadWithRetry
    \/ pending = None /\ CmdStopRead
    \/ pending = None /\ CmdDemute
    \/ pending = None /\ CmdGetTn
    \/ pending = None /\ CmdGetTnPanic
    \/ pending = None /\ \E track \in TrackParams : CmdGetTd(track)
    \/ pending = None /\ CmdPlay
    \/ Step

SchedSpec == Init /\ [][SchedNext]_vars /\ WF_vars(Step)

RECURSIVE SumDelays(_, _)
\* d1 + ... + di of the chain c
SumDelays(c, i) ==
    IF i = 0 THEN 0 ELSE c[i].execution_cycles + SumDelays(c, i - 1)

(***************************************************************************)
(* C11: a chain of N packets with delays d1..dN, stepped with no new       *)
(* command issued, gives exactly N delivery events and then none: they     *)
(* come in chain order, the i-th at d1+...+di cycles from issuance, each   *)
(* with its packet's cause and payload (seek-data: Acknowledge at 0xc4e1,  *)
(* Complete at 0xc4e1 + 120000).                                           *)
(***************************************************************************)
C11_DeliveredInOrder ==
    LET c == Chain(packet) IN
    /\ Len(delivered) <= Len(c)
    /\ \A i \in 1..Len(delivered) :
          /\ delivered[i].cause = c[i].cause
          /\ delivered[i].response = c[i].response
          /\ delivered[i].at = SumDelays(c, i)
    /\ (pending = None <=> Len(delivered) = Len(c))
    /\ (pending # None => unwrap(pending) = c[Len(delivered) + 1])
    /\ clock <= SumDelays(c, Len(c))
    /\ (LastCommand = 21 /\ Len(delivered) = 2 =>
           /\ delivered[1].cause = Acknowledge /\ delivered[1].at = 50401
           /\ delivered[2].cause = Complete /\ delivered[2].at = 170401)

C11_AllDelivered ==
    /\ pending = None
    /\ Len(delivered) = Len(Chain(packet))

C11_ChainDelivery ==
    /\ []C11_DeliveredInOrder
    /\ [][delivered' # delivered =>
            \/ delivered' = <<>>
            \/ /\ pending # None
               /\ Len(delivered') = Len(delivered) + 1
               /\ SubSeq(delivered', 1, Len(delivered)) = delivered]_vars
    /\ (pending # None ~> C11_AllDelivered)

\* both packets of a seek-data have been delivered, at 0xc4e1 and at
\* 0xc4e1 + 120000 cycles, and nothing is pending
C11_Witness ==
    /\ LastCommand = 21
    /\ pending = None
    /\ Len(delivered) = 2
    /\ delivered[1].at = 50401
    /\ delivered[2].at = 170401
    /\ clock = 170401

(***************************************************************************)
(* C12: every chain a handler returns has one or two packets:              *)
(* get-bios-date, get-stat, set-loc, set-mode, demute, get-track-count,    *)
(* get-track-position and play return a packet with no successor; get-id,  *)
(* init, seek-data, read-with-retry and stop-read return a head whose      *)
(* successor has no successor.                                             *)
(***************************************************************************)
C12_ChainLengths ==
    packet # None =>
        LET c == Chain(packet) IN
        /\ LastCommand \in {25, 1, 2, 14, 12, 19, 20, 3, 26, 10, 21, 6, 9}
        /\ (LastCommand \in {25, 1, 2, 14, 12, 19, 20, 3} =>
               /\ Len(c) = 1
               /\ c[1].extra_response = None)
        /\ (LastCommand \in {26, 10, 21, 6, 9} =>
               /\ Len(c) = 2
               /\ c[1].extra_response = Some(c[2])
               /\ c[2].extra_response = None)

\* init has returned a head and one successor, and both have been delivered
C12_Witness ==
    /\ LastCommand = 10
    /\ Len(Chain(packet)) = 2
    /\ Chain(packet)[2].extra_response = None
    /\ Len(delivered) = 2
    /\ pending = None

(***************************************************************************)
(* C13: get-bios-date, get-stat, get-id, demute, get-track-count (with a   *)
(* disc), get-track-position and play leave every field of the drive       *)
(* record unchanged, so a later command answers as if they had not been    *)
(* issued; set-mode changes drive_mode only.                               *)
(***************************************************************************)
ReadOnlyCommand ==
    \/ CmdGetBiosDate
    \/ CmdGetStat
    \/ CmdGetId
    \/ CmdDemute
    \/ CmdGetTn
    \/ \E track \in TrackParams : CmdGetTd(track)
    \/ CmdPlay

C13_ReadOnlyHandlers ==
    /\ [][ReadOnlyCommand => UNCHANGED driveVars]_vars
    /\ [][\A mode \in ModeBytes :
            CmdSetMode(mode) =>
                /\ drive_mode' = mode
                /\ UNCHANGED <<disc, motor_state, drive_state, seek_target,
                               seek_complete, read_offset, read_enabled,
                               data_queue>>]_vars

\* play has just been issued on a reading drive with the motor on, a seek
\* completed and a sector byte buffered, all of which are still there
C13_Witness ==
    /\ LastCommand = 3
    /\ clock = 0
    /\ motor_state = "On"
    /\ drive_state = "Read"
    /\ read_enabled
    /\ seek_complete
    /\ data_queue # <<>>

(***************************************************************************)
(* C14: get-track-position(track) returns, whatever the track, the same    *)
(* single Acknowledge packet with payload [status, 0x00, 0x02].            *)
(***************************************************************************)
C14_GetTrackPosition ==
    /\ [](\A t1, t2 \in TrackParams :
             get_td(CDDrive, t1) = get_td(CDDrive, t2))
    /\ [][\A track \in TrackParams :
            CmdGetTd(track) =>
                LET c == Chain(packet') IN
                /\ Len(c) = 1
                /\ c[1].cause = Acknowledge
                /\ Len(c[1].response) = 3
                /\ Reflects(c[1].response[1], motor_state, drive_state)
                /\ c[1].response[2] = 0
                /\ c[1].response[3] = 2]_vars

\* get-track-position has been answered on a seeking drive with the motor on
C14_Witness ==
    /\ LastCommand = 20
    /\ Len(delivered) = 1
    /\ delivered[1].cause = Acknowledge
    /\ delivered[1].response = <<66, 0, 2>>

(***************************************************************************)
(* C16: for every handler and every drive state the head of the returned   *)
(* chain is Acknowledge with the first-response delay 0xc4e1; DataReady,   *)
(* Complete and Error appear on a successor only, and the reserved         *)
(* data-end cause never appears.                                           *)
(***************************************************************************)
C16_HeadIsAcknowledge ==
    packet # None =>
        LET c == Chain(packet) IN
        /\ c[1].cause = Acknowledge
        /\ c[1].execution_cycles = 50401
        /\ \A i \in 2..Len(c) : c[i].cause \in {DataReady, Complete, Error}
        /\ \A i \in 1..Len(c) : c[i].cause # "INT4"

\* read-with-retry has returned an Acknowledge head and a DataReady successor
C16_Witness ==
    /\ LastCommand = 6
    /\ clock = 0
    /\ Chain(packet)[1].cause = Acknowledge
    /\ Chain(packet)[1].execution_cycles = 50401
    /\ Chain(packet)[2].cause = DataReady

(***************************************************************************)
(* C17: from an idle drive with reading off, after any sequence of handler *)
(* calls, drive_state = Read implies read_enabled.                         *)
(***************************************************************************)
C17_ReadImpliesEnabled ==
    drive_state = "Read" => read_enabled

\* the drive is reading, several commands after the read was started
C17_Witness ==
    /\ drive_state = "Read"
    /\ read_enabled
    /\ LastCommand = 14
    /\ motor_state = "On"

(***************************************************************************)
(* C18 as stated: from an idle drive with reading off, after any sequence  *)
(* of handler calls, read_enabled implies drive_state = Read.              *)
(***************************************************************************)
C18_EnabledOnlyInRead ==
    read_enabled => drive_state = "Read"

(***************************************************************************)
(* C18 as amended: read_enabled implies drive_state is Read or Seek, never *)
(* Idle; seek-data issued during a read leaves read_enabled true with      *)
(* drive_state = Seek, and init changes neither.                           *)
(***************************************************************************)
C18_EnabledInReadOrSeek ==
    /\ [](read_enabled => drive_state \in {"Read", "Seek"})
    /\ [][CmdSeekData =>
            read_enabled' = read_enabled /\ drive_state' = "Seek"]_vars
    /\ [][CmdInit => UNCHANGED <<read_enabled, drive_state>>]_vars

\* seek-data has just been issued during a read
C18_Witness ==
    /\ LastCommand = 21
    /\ clock = 0
    /\ read_enabled
    /\ drive_state = "Seek"

(***************************************************************************)
(* C19: motor_state only ever goes from Off to On, and only in init: once  *)
(* init has been issued the motor stays on through every later command,    *)
(* stop-read included, and every status byte of every response shows the   *)
(* motor as it is; before the first init no command switches it on.        *)
(***************************************************************************)
\* the packets of the last chain that carry a status byte
StatusPackets ==
    {i \in 1..Len(Chain(packet)) :
        LastCommand # 25 /\ Chain(packet)[i].cause # Error}

C19_StatusShowsMotor ==
    \A i \in StatusPackets :
        StatMotor(Chain(packet)[i].response[1]) = motor_state

C19_MotorOnlyInit ==
    /\ []C19_StatusShowsMotor
    /\ [][motor_state = "On" => motor_state' = "On"]_vars
    /\ [][motor_state' # motor_state =>
            motor_state = "Off" /\ motor_state' = "On" /\ CmdInit]_vars
    /\ [][CmdSeekData \/ CmdReadWithRetry \/ CmdStopRead =>
            motor_state' = motor_state]_vars

\* stop-read was issued during a read with the motor on and has been
\* answered: the motor is still on and both status bytes show it
C19_Witness ==
    /\ LastCommand = 9
    /\ motor_state = "On"
    /\ Len(delivered) = 2
    /\ delivered[1].response = <<34>>
    /\ delivered[2].response = <<2>>

(***************************************************************************)
(* Coprocessor 0 (cpu/cop0.rs): the register file and its two accessors.   *)
(***************************************************************************)
\* register numbers given to write_reg (a u8; above 31 the index panics)
RegisterNumbers == {0, 1, 12, 31, 32}
\* values given to write_reg
RegisterValues == {0, 1, 65536}

read_reg(register_number) == gen_registers[register_number]

WriteReg(register_number, value) ==
    /\ ~aborted
    /\ IF register_number > 31
       THEN /\ aborted' = TRUE
            /\ UNCHANGED gen_registers
       ELSE /\ gen_registers' =
                   [gen_registers EXCEPT ![register_number] = value]
            /\ UNCHANGED aborted
    /\ UNCHANGED <<driveVars, schedVars, gpuVars>>

Cop0Next ==
    \E register_number \in RegisterNumbers, value \in RegisterValues :
        WriteReg(register_number, value)

Cop0Spec == Init /\ [][Cop0Next]_vars

(***************************************************************************)
(* C15: write_reg prevents setting register 0: after any sequence of       *)
(* write_reg calls with register numbers 0..31 and any values, read_reg(0) *)
(* returns 0.                                                              *)
(***************************************************************************)
C15_RegisterZeroIsZero ==
    read_reg(0) = 0

(***************************************************************************)
(* The GPU (gpu.rs): the GP0 command port.  A u32 word is the pair of its  *)
(* 16-bit halves <<high, low>>, bits 31..16 and 15..0.                     *)
(***************************************************************************)
\* the words given to send_gp0_command
Gp0Words == {
    <<0, 0>>,          \* 0x00000000  NOP; as data, x = 0, y = 0
    <<1, 2>>,          \* 0x00010002  NOP; as data, x = 2, y = 1
    <<8192, 0>>,       \* 0x20000000  flat polygon, three vertices
    <<12288, 0>>,      \* 0x30000000  gouraud polygon
    <<24576, 17>>,     \* 0x60000011  rectangle, variable size
    <<26624, 17>>,     \* 0x68000011  rectangle, single pixel
    <<25600, 0>>,      \* 0x64000000  rectangle, textured
    <<57600, 21>>,     \* 0xE1000015  draw mode setting
    <<58112, 1025>>,   \* 0xE3000401  drawing area top left
    <<16384, 0>>       \* 0x40000000  unknown header
}

\* vec![0; 1_048_576 / 2]
VRAM_LEN == 524288

\* the Gpu value handed to a method as `self`
Gpu ==
    [vram |-> vram, gp0_buffer |-> gp0_buffer,
     gp0_buffer_address |-> gp0_buffer_address,
     texpage_x_base |-> texpage_x_base, texpage_y_base |-> texpage_y_base,
     draw_area_top_left_x |-> draw_area_top_left_x,
     draw_area_top_left_y |-> draw_area_top_left_y,
     draw_area_bottom_right_x |-> draw_area_bottom_right_x,
     draw_area_bottom_right_y |-> draw_area_bottom_right_y]

\* BitField::get_bit on a u32
get_bit(w, n) ==
    IF n >= 16 THEN (w[1] \div (2 ^ (n - 16))) % 2 = 1
    ELSE (w[2] \div (2 ^ n)) % 2 = 1

\* (self >> 29) & 0x7
Command_gp0_header(w) == w[1] \div 8192

\* (self >> 24) & 0xFF
Command_command(w) == w[1] \div 256

as_u16(x) == x % 65536

\* how a method call ends: with the Gpu as it leaves it, or with a panic
Returned(gpu) == [gpu |-> gpu, panicked |-> FALSE]
Panicked(gpu) == [gpu |-> gpu, panicked |-> TRUE]

gp0_push(gpu, val) ==
    [gpu EXCEPT !.gp0_buffer[gpu.gp0_buffer_address] = val,
                !.gp0_buffer_address = @ + 1]

\* send_gp0_command never emptying the buffer
gp0_clear_forgotten(gpu) == gpu

gp0_clear(gpu) == [gpu EXCEPT !.gp0_buffer_address = 0]

point_to_address(x, y) == (1024 * y) + x

\* vram with `fill` stored at every address of addrs
vram_store(v, addrs, fill) ==
    IF fill = 0
    THEN [a \in (DOMAIN v) \ addrs |-> v[a]]
    ELSE [a \in (DOMAIN v) \cup addrs |-> IF a \in addrs THEN fill ELSE v[a]]

\* draw_solid_box with draw_horizontal_line: every point of x1..=x2 by
\* y1..=y2, row by row; a point beyond vram panics on the index, and there
\* is one exactly when the last point is beyond it
draw_solid_box(gpu, x1, y1, x2, y2, fill) ==
    IF x1 > x2 \/ y1 > y2
    THEN Returned(gpu)
    ELSE IF point_to_address(x2, y2) >= VRAM_LEN
    THEN Panicked(gpu)
    ELSE Returned([gpu EXCEPT !.vram =
             vram_store(@, {point_to_address(x, y) :
                               x \in x1..x2, y \in y1..y2}, fill)])

\* what follows the match when no arm has returned or panicked:
\* "Made it to the end, so the command must have been executed"
executed(r) == IF r.panicked THEN r ELSE Returned(gp0_clear(r.gpu))

send_gp0_command(gpu, value) ==
    IF gpu.gp0_buffer_address > 15
    THEN Panicked(gpu)
    ELSE
    LET g1 == gp0_push(gpu, value)
        command == g1.gp0_buffer[0]
        header == Command_gp0_header(command)
    IN  CASE header = 0 -> executed(Returned(g1))
          [] header = 1 ->
                IF get_bit(command, 28) \/ get_bit(command, 1)
                THEN Returned([g1 EXCEPT !.gp0_buffer_address = 1])
                ELSE LET verts == IF get_bit(command, 27) THEN 4 ELSE 3
                     IN  IF g1.gp0_buffer_address < verts
                         THEN Returned(g1)
                         ELSE Panicked(g1)
          [] header = 3 ->
                IF get_bit(command, 26)
                THEN Returned([g1 EXCEPT !.gp0_buffer_address = 1])
                ELSE LET size == (command[1] \div 2048) % 4
                         length == 2 + (IF size = 0 THEN 1 ELSE 0)
                     IN  IF g1.gp0_buffer_address < length
                         THEN Returned(g1)
                         ELSE CASE size = 1 ->
                                    LET x == g1.gp0_buffer[1][2]
                                        y == g1.gp0_buffer[1][1]
                                        address == point_to_address(x, y)
                                    IN  IF address >= VRAM_LEN
                                        THEN Panicked(g1)
                                        ELSE executed(Returned(
                                            [g1 EXCEPT !.vram =
                                                vram_store(@, {address},
                                                    as_u16(command[2]))]))
                                [] size = 0 ->
                                    executed(draw_solid_box(g1,
                                        g1.gp0_buffer[1][2],
                                        g1.gp0_buffer[1][1],
                                        g1.gp0_buffer[2][2],
                                        g1.gp0_buffer[2][1],
                                        as_u16(command[2])))
                                [] OTHER -> executed(Returned(g1))
          [] header = 7 ->
                CASE Command_command(command) = 225 ->
                        executed(Returned([g1 EXCEPT
                            !.texpage_x_base = as_u16((command[2] % 16) * 64),
                            !.texpage_y_base =
                                IF get_bit(command, 4) THEN 256 ELSE 0]))
                  [] Command_command(command) = 227 ->
                        executed(Returned([g1 EXCEPT
                            !.draw_area_top_left_x = command[2] % 1024,
                            !.draw_area_top_left_y =
                                (command[2] \div 1024)
                                + ((command[1] % 8) * 64)]))
                  [] Command_command(command) = 228 ->
                        executed(Returned([g1 EXCEPT
                            !.draw_area_bottom_right_x = command[2] % 1024,
                            !.draw_area_bottom_right_y =
                                (command[2] \div 1024)
                                + ((command[1] % 8) * 64)]))
                  [] Command_command(command) = 229 -> executed(Returned(g1))
                  [] OTHER -> Panicked(g1)
          [] OTHER -> Panicked(g1)

SendGp0Command(value) ==
    /\ ~aborted
    /\ LET r == send_gp0_command(Gpu, value) IN
       IF r.panicked
       THEN /\ aborted' = TRUE
            /\ UNCHANGED gpuVars
       ELSE /\ vram' = r.gpu.vram
            /\ gp0_buffer' = r.gpu.gp0_buffer
            /\ gp0_buffer_address' = r.gpu.gp0_buffer_address
            /\ texpage_x_base' = r.gpu.texpage_x_base
            /\ texpage_y_base' = r.gpu.texpage_y_base
            /\ draw_area_top_left_x' = r.gpu.draw_area_top_left_x
            /\ draw_area_top_left_y' = r.gpu.draw_area_top_left_y
            /\ draw_area_bottom_right_x' = r.gpu.draw_area_bottom_right_x
            /\ draw_area_bottom_right_y' = r.gpu.draw_area_bottom_right_y
            /\ UNCHANGED aborted
    /\ UNCHANGED <<driveVars, schedVars, cop0Vars>>

GpuNext == \E value \in Gp0Words : SendGp0Command(value)

GpuSpec == Init /\ [][GpuNext]_vars

(***************************************************************************)
(* C20.  The command word of the command in progress: the word being       *)
(* pushed when the buffer is empty, gp0_buffer[0] otherwise; and whether   *)
(* pushing value completes it: a NOP, a known environment command, or an   *)
(* untextured rectangle whose last word this is.                           *)
(***************************************************************************)
CommandInProgress(value) ==
    IF gp0_buffer_address = 0 THEN value ELSE gp0_buffer[0]

FullyExecutes(value) ==
    LET command == CommandInProgress(value) IN
    \/ Command_gp0_header(command) = 0
    \/ /\ Command_gp0_header(command) = 7
       /\ Command_command(command) \in {225, 227, 228, 229}
    \/ /\ Command_gp0_header(command) = 3
       /\ ~get_bit(command, 26)
       /\ gp0_buffer_address + 1 >=
              (IF (command[1] \div 2048) % 4 = 0 THEN 3 ELSE 2)

(***************************************************************************)
(* C20: over any sequence of words given to send_gp0_command,              *)
(* gp0_buffer_address is below 16, the length of gp0_buffer, before every  *)
(* push; and every call that returns having fully executed a command (a    *)
(* NOP, a rectangle with all its words, an environment command) leaves     *)
(* gp0_buffer_address at 0.                                                *)
(***************************************************************************)
C20_IndexWithinBuffer ==
    /\ [](gp0_buffer_address < 16)
    /\ [][\A value \in Gp0Words :
            (SendGp0Command(value) /\ FullyExecutes(value) /\ ~aborted')
                => gp0_buffer_address' = 0]_vars

\* a variable-size rectangle has been given its three words and drawn
C20_Witness ==
    /\ ~aborted
    /\ gp0_buffer_address = 0
    /\ gp0_buffer[0] = <<24576, 17>>
    /\ gp0_buffer[2] = <<1, 2>>
    /\ point_to_address(2, 1) \in DOMAIN vram

====
